---- MODULE Spec2Model ----
(***************************************************************************)
(* Model of the Innometrics backend request handlers (src/api/app.py):     *)
(* activity submission with rollback, activity deletion, activity queries  *)
(* and the identity resolver behind login_required.                        *)
(*                                                                         *)
(* Python values that the handlers test for truthiness or compare with 0   *)
(* are kept as tagged records so that None, 0, an identifier and a list    *)
(* stay distinct, as they are in the code.                                 *)
(***************************************************************************)
EXTENDS Integers, Sequences, FiniteSets, TLC

VARIABLES
    activities,   \* the activity collection: a set of [id, owner, payload]
    nextId,       \* the next identifier the store assigns on insert
    users,        \* the user collection: the set of existing user ids
    issued,       \* tokens signed by encode_auth_token so far: [iat, sub]
    now,          \* the clock, in days
    matching,     \* number of stored records a query's scope selects
    request,      \* the request handled last
    response,     \* the response given to it
    calls,        \* the store calls issued while handling it, in order
    accounts,     \* the user documents: a set of [id, email]
    emailIndex,   \* whether the user collection has a unique index on email
    registering,  \* the user_register requests in progress, one per worker
    adding,       \* an activity_add request in progress, taken step by step
    reads         \* identifiers activity_find returned while it was in progress

regVars == <<accounts, emailIndex, registering>>
concVars == <<adding, reads>>

vars == <<activities, nextId, users, issued, now, matching, request, response, calls,
          accounts, emailIndex, registering, adding, reads>>

-----------------------------------------------------------------------------
(* Bounds of the model *)

MaxId == 3
MaxBatch == 3
MaxTokens == 2
MaxDay == 32
MaxUsers == 3

UserIds == {"u1", "u2"}
Payloads == {"a", "b"}

-----------------------------------------------------------------------------
(* Python values *)

PyNone == [t |-> "None"]
PyId(n) == [t |-> "id", v |-> n]
PyInt(n) == [t |-> "int", v |-> n]
PyStr(s) == [t |-> "str", v |-> s]
PyList(s) == [t |-> "list", v |-> s]

\* bool(x), as used by `if x` and `if not x`
Truthy(x) ==
    CASE x.t = "None" -> FALSE
      [] x.t = "int"  -> x.v # 0
      [] x.t = "id"   -> TRUE
      [] x.t = "str"  -> x.v # ""
      [] x.t = "list" -> Len(x.v) > 0

\* x == 0
EqualsZero(x) == x.t = "int" /\ x.v = 0

Range(s) == {s[i] : i \in DOMAIN s}

Idle == [handler |-> "none"]
NoResponse == [status |-> 0, body |-> PyNone]

-----------------------------------------------------------------------------
(* Request data of POST /activity *)

\* JSON values that the 'activity' field can decode to.  hasKey says whether
\* `ACTIVITIES_KEY in value` is true: a key of an object, an element of an
\* array, a substring of a string.
Obj(p) == [t |-> "object", hasKey |-> FALSE, name |-> p, activities |-> <<>>]
BatchObj(ps) == [t |-> "object", hasKey |-> TRUE, name |-> "", activities |-> ps]
Arr(k) == [t |-> "array", hasKey |-> k, name |-> "", activities |-> <<>>]
Str(k) == [t |-> "string", hasKey |-> k, name |-> "", activities |-> <<>>]
Scalar == [t |-> "scalar", hasKey |-> FALSE, name |-> "", activities |-> <<>>]
Unparsable == [t |-> "unparsable", hasKey |-> FALSE, name |-> "", activities |-> <<>>]

Batches == UNION {[1..n -> Payloads] : n \in 0..MaxBatch}

JsonValues ==
    {Obj(p) : p \in Payloads} \cup {BatchObj(ps) : ps \in Batches}
        \cup {Arr(k) : k \in BOOLEAN} \cup {Str(k) : k \in BOOLEAN} \cup {Scalar}

\* The 'activity' field as the handler receives it: absent (None), a dict of
\* a JSON body, the text of a form field or of a JSON string, or another JSON
\* body value (a list, a number).
AbsentField == [form |-> "absent", value |-> Scalar]
DictField(o) == [form |-> "dict", value |-> o]
TextField(v) == [form |-> "text", value |-> v]
RawField(v) == [form |-> "raw", value |-> v]

ActivityFields ==
    {AbsentField}
        \cup {DictField(o) : o \in {v \in JsonValues : v.t = "object"}}
        \cup {TextField(v) : v \in JsonValues \cup {Unparsable}}
        \cup {RawField(v) : v \in {Arr(FALSE), Scalar}}

-----------------------------------------------------------------------------
(* The activity store (api.activity) and the fan-out helper (utils) *)

\* add_activity(activity, user): the new identifier, or a falsy value when
\* the payload is no mapping or the insert could not complete.
AddActivity(store, nid, activity, owner, ok) ==
    IF ok /\ activity.t = "object"
    THEN [store |-> store \cup {[id |-> nid, owner |-> owner, payload |-> activity.name]},
          nextId |-> nid + 1,
          result |-> PyId(nid)]
    ELSE [store |-> store, nextId |-> nid, result |-> PyNone]

\* delete_activity(activity_id): 1 when deleted, 0 when no record has the id,
\* None when the store operation failed.
DeleteActivity(store, id, ok) ==
    IF ~ok
    THEN [store |-> store, result |-> PyNone]
    ELSE IF id.t = "id" /\ \E r \in store : r.id = id.v
    THEN [store |-> {r \in store : r.id # id.v}, result |-> PyInt(1)]
    ELSE [store |-> store, result |-> PyInt(0)]

InsertCall(activity, owner, result) ==
    [op |-> "insert", payload |-> activity.name, owner |-> owner, result |-> result]
DeleteCall(id, result) == [op |-> "delete", id |-> id, result |-> result]

\* execute_function_in_parallel(add_activity, tasks): the tasks complete in
\* the order `order` (a permutation of the positions); the result list is
\* aligned with the input positions.
RECURSIVE RunInOrder(_, _, _, _, _, _)
RunInOrder(st, tasks, owner, order, insOk, k) ==
    IF k > Len(order)
    THEN st
    ELSE LET pos == order[k]
             r == AddActivity(st.store, st.nextId, Obj(tasks[pos]), owner, insOk[pos])
         IN RunInOrder([store |-> r.store,
                        nextId |-> r.nextId,
                        results |-> [st.results EXCEPT ![pos] = r.result],
                        calls |-> Append(st.calls, InsertCall(Obj(tasks[pos]), owner, r.result))],
                       tasks, owner, order, insOk, k + 1)

ExecuteInParallel(store, nid, tasks, owner, order, insOk) ==
    RunInOrder([store |-> store, nextId |-> nid,
                results |-> [i \in 1..Len(tasks) |-> PyNone], calls |-> <<>>],
               tasks, owner, order, insOk, 1)

Permutations1(n) == {f \in [1..n -> 1..n] : \A i, j \in 1..n : f[i] = f[j] => i = j}

-----------------------------------------------------------------------------
(* activity_add *)

\* jsonify(*args): one argument is serialised as it is, several as a list.
Jsonify(args) == IF Len(args) = 1 THEN args[1] ELSE PyList(args)

\* make_response(*args): (body) answers with status 200, (body, status) with
\* the status given.
MakeResponse(args) ==
    [status |-> IF Len(args) >= 2 THEN args[2] ELSE 200, body |-> args[1]]

\* make_response(jsonify({...}), status), the form every reply but one takes
Reply(status, message, activity_id) ==
    MakeResponse(<<Jsonify(<<[message |-> message, activity_id |-> activity_id]>>), status>>)

\* An exception that leaves the view function: Flask answers 500.
Raised == Reply(500, "Internal Server Error", PyNone)

\* lines 572-577: isinstance(activity_data, dict), else json.loads
DecodeActivity(field) ==
    IF field.form = "dict"
    THEN [ok |-> TRUE, data |-> field.value]
    ELSE IF field.form = "text" /\ field.value.t # "unparsable"
    THEN [ok |-> TRUE, data |-> field.value]
    ELSE [ok |-> FALSE, data |-> Scalar]

AggregateStepLastWins(result, part_result) == part_result

\* lines 585-586: if not part_result: result = part_result
AggregateStep(result, part_result) ==
    IF ~Truthy(part_result) THEN part_result ELSE result

RECURSIVE AggregateFrom(_, _, _)
AggregateFrom(all_result, i, result) ==
    IF i > Len(all_result)
    THEN result
    ELSE AggregateFrom(all_result, i + 1, AggregateStep(result, all_result[i]))

AggregateIgnoresFailures(all_result) == PyInt(1)

\* lines 583-586
Aggregate(all_result) == AggregateFrom(all_result, 1, PyInt(1))

BatchSucceededInverted(result) == ~Truthy(result)

\* line 587: if result
BatchSucceeded(result) == Truthy(result)

ShouldCompensateAlways(part_result) == TRUE

\* line 592: if part_result
ShouldCompensate(part_result) == Truthy(part_result)

\* lines 591-593: delete those activities that were added
RECURSIVE Rollback(_, _, _, _)
Rollback(st, all_result, delOk, i) ==
    IF i > Len(all_result)
    THEN st
    ELSE IF ShouldCompensate(all_result[i])
    THEN LET d == DeleteActivity(st.store, all_result[i], delOk[i])
         IN Rollback([store |-> d.store,
                      calls |-> Append(st.calls, DeleteCall(all_result[i], d.result))],
                     all_result, delOk, i + 1)
    ELSE Rollback(st, all_result, delOk, i + 1)

\* lines 581-593: the multi-activity branch
AddMultiple(store, nid, user, tasks, order, insOk, delOk) ==
    LET run == ExecuteInParallel(store, nid, tasks, user, order, insOk)
        all_result == run.results
        result == Aggregate(all_result)
    IN IF BatchSucceeded(result)
       THEN [store |-> run.store, nextId |-> run.nextId, calls |-> run.calls,
             result |-> PyList(all_result)]
       ELSE LET rb == Rollback([store |-> run.store, calls |-> run.calls],
                               all_result, delOk, 1)
            IN [store |-> rb.store, nextId |-> run.nextId, calls |-> rb.calls,
                result |-> result]

\* lines 597-601
AddReply(result) ==
    IF ~Truthy(result)
    THEN Reply(500, "Failed to create activity", PyNone)
    ELSE Reply(201, "Success", result)

\* activity_add as a whole: the store afterwards, the store calls, the reply
ActivityAdd(store, nid, user, field, order, insOk, delOk) ==
    LET dec == DecodeActivity(field)
        data == dec.data
        same == [store |-> store, nextId |-> nid, calls |-> <<>>]
    IN IF ~dec.ok
       THEN same @@ [reply |-> Reply(400, "Wrong format", PyNone)]
       ELSE IF data.t = "scalar"
       THEN same @@ [reply |-> Raised]            \* `in` on a number: TypeError
       ELSE IF data.hasKey
       THEN IF data.t # "object"
            THEN same @@ [reply |-> Raised]       \* no .get on a list or a str
            ELSE LET m == AddMultiple(store, nid, user, data.activities,
                                      order, insOk, delOk)
                 IN [store |-> m.store, nextId |-> m.nextId, calls |-> m.calls,
                     reply |-> AddReply(m.result)]
       ELSE LET a == AddActivity(store, nid, data, user, insOk[1])
            IN [store |-> a.store, nextId |-> a.nextId,
                calls |-> <<InsertCall(data, user, a.result)>>,
                reply |-> AddReply(a.result)]

-----------------------------------------------------------------------------
(* activity_delete *)

\* The activity_id field: absent (None), the empty string, or an identifier.
AbsentId == [given |-> FALSE, id |-> PyNone]
EmptyId == [given |-> TRUE, id |-> PyStr("")]
GivenId(n) == [given |-> TRUE, id |-> PyId(n)]

IdFields == {AbsentId, EmptyId} \cup {GivenId(n) : n \in 1..MaxId}

\* line 631: the status is passed to jsonify, not to make_response
EmptyDataReply ==
    MakeResponse(<<Jsonify(<<[message |-> "Empty data", activity_id |-> PyNone], 400>>)>>)

DeleteReplyFailureFirst(result) ==
    IF ~Truthy(result)
    THEN Reply(500, "Failed to delete activity", PyNone)
    ELSE IF EqualsZero(result)
    THEN Reply(404, "Activity with this id was not found", PyNone)
    ELSE Reply(200, "Success", PyNone)

\* lines 634-641
DeleteReply(result) ==
    IF EqualsZero(result)
    THEN Reply(404, "Activity with this id was not found", PyNone)
    ELSE IF ~Truthy(result)
    THEN Reply(500, "Failed to delete activity", PyNone)
    ELSE Reply(200, "Success", PyNone)

\* activity_delete as a whole
ActivityDelete(store, idField, ok) ==
    IF ~Truthy(idField.id)
    THEN [store |-> store, calls |-> <<>>, reply |-> EmptyDataReply]
    ELSE LET d == DeleteActivity(store, idField.id, ok)
         IN [store |-> d.store,
             calls |-> <<DeleteCall(idField.id, d.result)>>,
             reply |-> DeleteReply(d.result)]

-----------------------------------------------------------------------------
(* The activity endpoints as a state machine *)

\* The number of insert tasks a request leads to: the outcomes to choose.
TaskCount(field) ==
    LET dec == DecodeActivity(field)
    IN IF ~dec.ok \/ dec.data.t = "scalar"
       THEN 0
       ELSE IF dec.data.hasKey
       THEN Len(dec.data.activities)
       ELSE 1

\* The users that exist when the activity endpoints are exercised.
InitialAccounts == {[id |-> "u1", email |-> "a@x"], [id |-> "u2", email |-> "b@x"]}

\* The request threads of the server (app.run(threaded=True)).
Workers == {"w1", "w2"}

NotRegistering ==
    [pc |-> "idle", email |-> "", status |-> 0, created |-> FALSE, existed |-> FALSE]

NotAdding == [pc |-> "idle"]

Init ==
    /\ activities = {}
    /\ nextId = 1
    /\ users = UserIds
    /\ issued = {}
    /\ now = 0
    /\ matching = 0
    /\ request = Idle
    /\ response = NoResponse
    /\ calls = <<>>
    /\ accounts = InitialAccounts
    /\ emailIndex = FALSE
    /\ registering = [w \in Workers |-> NotRegistering]
    /\ adding = NotAdding
    /\ reads = {}

ActivityAddReq ==
    \E user \in UserIds, field \in ActivityFields :
        LET n == TaskCount(field)
        IN /\ request = Idle
           /\ nextId + n - 1 <= MaxId
           /\ \E order \in Permutations1(n), insOk \in [1..n -> BOOLEAN],
                 delOk \in [1..n -> BOOLEAN] :
                 \* a delete outcome is chosen only where a delete is issued
                 /\ \A i \in 1..n :
                        ~delOk[i] => insOk[i] /\ \E j \in 1..n : ~insOk[j]
                 /\ LET out == ActivityAdd(activities, nextId, user, field,
                                           order, insOk, delOk)
                    IN /\ activities' = out.store
                       /\ nextId' = out.nextId
                       /\ calls' = out.calls
                       /\ response' = out.reply
                       /\ request' = [handler |-> "activity_add", user |-> user,
                                      field |-> field, insOk |-> insOk,
                                      delOk |-> delOk]
                       /\ UNCHANGED <<users, issued, now, matching, regVars, concVars>>

ActivityDeleteReq ==
    \E user \in UserIds, idField \in IdFields, ok \in BOOLEAN :
        LET out == ActivityDelete(activities, idField, ok)
        IN /\ request = Idle
           /\ ~ok => Truthy(idField.id)    \* an outcome only where a call is made
           /\ activities' = out.store
           /\ calls' = out.calls
           /\ response' = out.reply
           /\ request' = [handler |-> "activity_delete", user |-> user,
                          idField |-> idField, ok |-> ok]
           /\ UNCHANGED <<nextId, users, issued, now, matching, regVars, concVars>>

\* The response has been sent; the next request is taken.
Deliver ==
    /\ request # Idle
    /\ request' = Idle
    /\ response' = NoResponse
    /\ calls' = <<>>
    /\ UNCHANGED <<activities, nextId, users, issued, now, matching, regVars, concVars>>

Next == ActivityAddReq \/ ActivityDeleteReq \/ Deliver

Spec == Init /\ [][Next]_vars

-----------------------------------------------------------------------------
(* Properties of activity_add and activity_delete, checked under Spec *)

IsAdd == request.handler = "activity_add"
IsDelete == request.handler = "activity_delete"

\* The request took the multi-activity branch (its payload holds 'activities').
IsBatchReq ==
    /\ IsAdd
    /\ DecodeActivity(request.field).ok
    /\ DecodeActivity(request.field).data.t = "object"
    /\ DecodeActivity(request.field).data.hasKey

BatchTasks == DecodeActivity(request.field).data.activities
BatchSize == Len(BatchTasks)

AllInserted == \A i \in 1..BatchSize : request.insOk[i]

\* Identifiers the store assigned while handling the request.
Created == {c.result.v : c \in {x \in Range(calls) : x.op = "insert" /\ Truthy(x.result)}}
Surviving == {r \in activities : r.id \in Created}

DeleteCalls == SelectSeq(calls, LAMBDA c : c.op = "delete")

\* C1: after a multi-activity request the records it created that are still
\* stored are all of them (success reported) or none (failure reported),
\* whatever the insert and compensating-delete outcomes were.
C1_AllOrNothing ==
    IsBatchReq =>
        \/ response.status = 201 /\ Cardinality(Surviving) = BatchSize
        \/ response.status # 201 /\ Surviving = {}

\* C2: a batch of N >= 1 payloads whose inserts all succeed is answered 201
\* with N identifiers, position i holding the identifier of payload i's
\* record, which is stored under the requesting user; no delete is issued.
C2_FullSuccess ==
    (IsBatchReq /\ BatchSize >= 1 /\ AllInserted) =>
        /\ response.status = 201
        /\ response.body.activity_id.t = "list"
        /\ LET ids == response.body.activity_id.v
           IN /\ Len(ids) = BatchSize
              /\ \A i \in 1..BatchSize :
                    /\ ids[i].t = "id"
                    /\ \E r \in activities :
                          /\ r.id = ids[i].v
                          /\ r.payload = BatchTasks[i]
                          /\ r.owner = request.user
              /\ \A i, j \in 1..BatchSize : ids[i] = ids[j] => i = j
        /\ DeleteCalls = <<>>

C2_Witness ==
    /\ IsBatchReq /\ BatchSize = 3 /\ AllInserted
    /\ response.status = 201
    /\ BatchTasks[1] # BatchTasks[2]
    /\ response.body.activity_id.v[1].v > response.body.activity_id.v[2].v

\* C3: a batch of N >= 1 payloads is reported successful (201) exactly when
\* every insert succeeded; otherwise it is answered 500 and every record
\* that was inserted gets a compensating delete.
C3_LogicalAnd ==
    (IsBatchReq /\ BatchSize >= 1) =>
        /\ response.status = 201 <=> AllInserted
        /\ ~AllInserted =>
              /\ response.status = 500
              /\ response.body.message = "Failed to create activity"
              /\ \A x \in Created : \E i \in 1..Len(DeleteCalls) : DeleteCalls[i].id = PyId(x)

C3_Witness ==
    /\ IsBatchReq /\ BatchSize = 3
    /\ ~request.insOk[1] /\ request.insOk[3]
    /\ response.status = 500

\* C4: when an insert of the batch failed, delete_activity is called exactly
\* once for each inserted identifier and for nothing else, also when such a
\* delete fails; when all inserts succeeded it is not called.
C4_CompensationExact ==
    IsBatchReq =>
        IF AllInserted
        THEN DeleteCalls = <<>>
        ELSE /\ {DeleteCalls[i].id : i \in 1..Len(DeleteCalls)} = {PyId(x) : x \in Created}
             /\ Len(DeleteCalls) = Cardinality(Created)

C4_Witness ==
    /\ IsBatchReq /\ BatchSize = 3
    /\ request.insOk[1] /\ ~request.insOk[2] /\ request.insOk[3]
    /\ Len(DeleteCalls) = 2
    /\ DeleteCalls[1].result = PyNone
    /\ DeleteCalls[2].result = PyInt(1)

\* C5: one payload submitted as a batch of length 1 leaves the store and the
\* success/failure outcome that the direct branch gives from the same store
\* with the same insert outcome.
C5_SingleEquivalence ==
    [][(IsBatchReq' /\ BatchSize' = 1) =>
          LET direct == ActivityAdd(activities, nextId, request'.user,
                                    DictField(Obj(BatchTasks'[1])),
                                    <<1>>, request'.insOk, <<TRUE>>)
          IN /\ activities' = direct.store
             /\ response'.status = direct.reply.status]_vars

C5_Witness ==
    /\ IsBatchReq /\ BatchSize = 1
    /\ ~request.insOk[1]
    /\ activities # {}
    /\ response.status = 500

\* C8: with a non-empty activity_id, activity_delete answers 404 exactly when
\* the store reports no record (0), 500 exactly when the store operation
\* failed, and 200 exactly when the record was deleted.
C8_DeleteOutcomes ==
    (IsDelete /\ Truthy(request.idField.id)) =>
        /\ Len(calls) = 1
        /\ calls[1].op = "delete"
        /\ calls[1].id = request.idField.id
        /\ response.status = 404 <=> EqualsZero(calls[1].result)
        /\ response.status = 500 <=> calls[1].result = PyNone
        /\ response.status = 200 <=> calls[1].result = PyInt(1)
        /\ response.status = 500 <=> ~request.ok
        /\ response.status = 200 => \A r \in activities : PyId(r.id) # request.idField.id

C8_Witness ==
    /\ IsDelete /\ Truthy(request.idField.id)
    /\ ~request.ok
    /\ \E r \in activities : PyId(r.id) = request.idField.id
    /\ response.status = 500

\* The 'activity' field is absent or does not decode to a JSON object.
Malformed(field) ==
    \/ field.form \in {"absent", "raw"}
    \/ field.form = "text" /\ field.value.t # "object"

\* C9: an activity_add request whose 'activity' field is absent or is no
\* structured record is answered 400 'Wrong format' and issues no insert or
\* delete.
C9_MalformedRejected ==
    (IsAdd /\ Malformed(request.field)) =>
        /\ response.status = 400
        /\ response.body.message = "Wrong format"
        /\ calls = <<>>

\* C10: an activity_delete request whose activity_id is absent or empty is
\* answered with status 400 and calls delete_activity for no record.
C10_DeleteMissingParam ==
    (IsDelete /\ ~Truthy(request.idField.id)) =>
        /\ response.status = 400
        /\ calls = <<>>

\* C11: an activity_delete request authenticated as one user never removes
\* an activity record owned by another user.
C11_DeleteOwnOnly ==
    [][IsDelete' =>
          \A r \in activities \ activities' : r.owner = request'.user]_vars

\* C13: an activity_add request with an empty 'activities' list issues no
\* insert and no delete and is reported as a success.
C13_EmptyBatchSucceeds ==
    (IsBatchReq /\ BatchSize = 0) =>
        /\ calls = <<>>
        /\ response.status = 201
        /\ response.body.message = "Success"

-----------------------------------------------------------------------------
(* Identity resolution: encode_auth_token, decode_auth_token, load_user,    *)
(* load_user_from_request                                                  *)

\* A bearer token: nothing, text that is no JWT, or a JWT with its claims;
\* `signed` says whether its signature verifies under FLASK_SECRET_KEY.
EmptyToken == [kind |-> "empty", signed |-> FALSE, exp |-> 0, iat |-> 0, sub |-> ""]
GarbageToken == [kind |-> "garbage", signed |-> FALSE, exp |-> 0, iat |-> 0, sub |-> ""]
Jwt(signed, exp, iat, sub) ==
    [kind |-> "jwt", signed |-> signed, exp |-> exp, iat |-> iat, sub |-> sub]

\* lines 67-76: exp is 30 days after the time of issue
EncodeAuthToken(user_id, time) == Jwt(TRUE, time + 30, time, user_id)

\* jwt.decode(token, key): the signature is verified first, then exp.
JwtDecode(token, time) ==
    IF token.kind # "jwt"
    THEN [exc |-> "DecodeError", sub |-> ""]
    ELSE IF ~token.signed
    THEN [exc |-> "InvalidSignatureError", sub |-> ""]
    ELSE IF token.exp < time
    THEN [exc |-> "ExpiredSignatureError", sub |-> ""]
    ELSE [exc |-> "none", sub |-> token.sub]

\* The exception classes of PyJWT that derive from InvalidTokenError.
InvalidTokenErrors == {"DecodeError", "InvalidSignatureError", "ExpiredSignatureError"}

Returned(value) == [raised |-> FALSE, value |-> value]
Thrown == [raised |-> TRUE, value |-> PyNone]

DecodeAuthTokenUnverified(auth_token, time) ==
    IF auth_token.kind = "jwt" THEN Returned(PyStr(auth_token.sub)) ELSE Returned(PyNone)

\* lines 88-96
DecodeAuthToken(auth_token, time) ==
    LET r == JwtDecode(auth_token, time)
    IN IF r.exc = "none"
       THEN Returned(PyStr(r.sub))
       ELSE IF r.exc = "ExpiredSignatureError"
       THEN Returned(PyNone)
       ELSE IF r.exc \in InvalidTokenErrors
       THEN Returned(PyNone)
       ELSE Thrown

\* line 58: User.objects(id=user_id).first()
LoadUser(user_id, userset) ==
    IF user_id \in userset THEN [t |-> "user", v |-> user_id] ELSE PyNone

\* The Authorization header: absent, or text with or without 'Token ' before
\* the token.
NoHeader == [present |-> FALSE, prefixed |-> FALSE, token |-> EmptyToken]
Header(prefixed, token) == [present |-> TRUE, prefixed |-> prefixed, token |-> token]

\* line 101: headers.get('Authorization', default='').replace('Token ', '')
HeaderToken(header) == IF header.present THEN header.token ELSE EmptyToken

\* lines 100-110
LoadUserFromRequest(header, userset, time) ==
    LET token == HeaderToken(header)
    IN IF token.kind = "empty"
       THEN Returned(PyNone)
       ELSE LET d == DecodeAuthToken(token, time)
            IN IF d.raised
               THEN Thrown
               ELSE IF Truthy(d.value)
               THEN Returned(LoadUser(d.value.v, userset))
               ELSE Returned(PyNone)

TickSteps == {15, 16}

ForgedTokens(time) ==
    {Jwt(FALSE, iat + 30, iat, sub) : iat \in {0, time}, sub \in UserIds}

Headers(tokens, time) ==
    {NoHeader} \cup
    {Header(p, t) : p \in BOOLEAN,
                    t \in {EmptyToken, GarbageToken} \cup tokens \cup ForgedTokens(time)}

\* login (lines 163-186) for an existing user: with the right password a
\* token is issued, otherwise 401.
LoginReq ==
    \E u \in users, passwordOk \in BOOLEAN :
        /\ request = Idle
        /\ Cardinality(issued \cup {EncodeAuthToken(u, now)}) <= MaxTokens
        /\ issued' = IF passwordOk THEN issued \cup {EncodeAuthToken(u, now)} ELSE issued
        /\ request' = [handler |-> "login", user |-> u, passwordOk |-> passwordOk]
        /\ response' = IF passwordOk
                       THEN [status |-> 200, body |-> EncodeAuthToken(u, now)]
                       ELSE [status |-> 401, body |-> PyNone]
        /\ calls' = <<>>
        /\ UNCHANGED <<activities, nextId, users, now, matching, regVars, concVars>>

\* user_delete (lines 469-475): the authenticated user is removed.
UserDeleteReq ==
    \E u \in users :
        /\ request = Idle
        /\ users' = users \ {u}
        /\ accounts' = {a \in accounts : a.id # u}
        /\ request' = [handler |-> "user_delete", user |-> u]
        /\ response' = [status |-> 200, body |-> PyNone]
        /\ calls' = <<>>
        /\ UNCHANGED <<activities, nextId, issued, now, matching,
                       emailIndex, registering, concVars>>

\* Time passes.
Tick ==
    \E d \in TickSteps :
        /\ request = Idle
        /\ now + d <= MaxDay
        /\ now' = now + d
        /\ UNCHANGED <<activities, nextId, users, issued, matching, request, response, calls, regVars, concVars>>

\* A request to a protected endpoint: flask_login calls the request loader.
ResolveReq ==
    \E header \in Headers(issued, now) :
        /\ request = Idle
        /\ request' = [handler |-> "load_user_from_request", header |-> header]
        /\ response' = LoadUserFromRequest(header, users, now)
        /\ calls' = <<>>
        /\ UNCHANGED <<activities, nextId, users, issued, now, matching, regVars, concVars>>

NextAuth == LoginReq \/ UserDeleteReq \/ Tick \/ ResolveReq \/ Deliver

SpecAuth == Init /\ [][NextAuth]_vars

IsResolve == request.handler = "load_user_from_request"

\* C6: load_user_from_request never raises, and returns a user exactly when
\* the token is non-empty, validly signed, issued at most 30 days earlier and
\* its subject is a user that exists; in every other case it returns None.
C6_ResolverSound ==
    IsResolve =>
        LET token == request.header.token
            good == /\ request.header.present
                    /\ token.kind = "jwt"
                    /\ token.signed
                    /\ now - token.iat <= 30
                    /\ token.sub \in users
        IN /\ ~response.raised
           /\ good => response.value = [t |-> "user", v |-> token.sub]
           /\ ~good => response.value = PyNone

C6_Witness ==
    /\ IsResolve
    /\ request.header.present
    /\ request.header.token.kind = "jwt"
    /\ request.header.token.signed
    /\ now - request.header.token.iat = 31
    /\ request.header.token.sub \in users
    /\ response = Returned(PyNone)

-----------------------------------------------------------------------------
(* activity_find and project_activities *)

Min(a, b) == IF a <= b THEN a ELSE b
Max(a, b) == IF a >= b THEN a ELSE b

\* A query parameter that int() is applied to: absent, digits, or other text.
AbsentArg == [kind |-> "absent", v |-> 0]
IntArg(n) == [kind |-> "int", v |-> n]
TextArg == [kind |-> "text", v |-> 0]

Amounts == {AbsentArg, TextArg} \cup {IntArg(n) : n \in {0, 1, 999, 1000, 1001, 5000, 10000, 10001}}
Offsets == {AbsentArg} \cup {IntArg(n) : n \in {1, 1000}}
FilterFields == {"absent", "json", "unparsable"}
Volumes == {0, 1, 999, 1000, 1001, 10000, 10001}
StoreOutcomes == {"ok", "failed", "wrong_filters"}

\* data.get(key, default) followed by int()
ArgOr(arg, default) == IF arg.kind = "absent" THEN default ELSE arg.v

FindLimitUncapped(amount) == ArgOr(amount, 100)

\* line 689: min(int(data.get(AMOUNT_TO_RETURN_KEY, 100)), 1000)
FindLimit(amount) == Min(ArgOr(amount, 100), 1000)

\* line 427: min(int(data.get(AMOUNT_TO_RETURN_KEY, 100)), 10000)
ProjectLimit(amount) == Min(ArgOr(amount, 100), 10000)

\* find_activities / get_project_activities: the records in scope from
\* `offset` on, at most `limit` of them; None when the query failed, -1 when
\* the filters are not usable.
FindActivities(count, offset, limit, outcome) ==
    CASE outcome = "failed" -> PyNone
      [] outcome = "wrong_filters" -> PyInt(-1)
      [] OTHER -> [t |-> "records", n |-> Min(Max(limit, 0), Max(count - offset, 0))]

FindCall(offset, limit) == [op |-> "find", offset |-> offset, limit |-> limit]

QueryReply(status, message, count) ==
    MakeResponse(<<Jsonify(<<[message |-> message, count |-> count]>>), status>>)

\* lines 425-453 and 687-714, which differ in the limit and the store call
Query(count, limit, offset, filters, outcome) ==
    IF offset.kind = "text" \/ limit.raised
    THEN [calls |-> <<>>, reply |-> QueryReply(500, "Internal Server Error", 0)]
    ELSE IF filters = "unparsable"
    THEN [calls |-> <<>>, reply |-> QueryReply(400, "Wrong format", 0)]
    ELSE LET found == FindActivities(count, ArgOr(offset, 0), limit.value, outcome)
             call == <<FindCall(ArgOr(offset, 0), limit.value)>>
         IN IF found = PyNone
            THEN [calls |-> call, reply |-> QueryReply(500, "Failed to fetch activities", 0)]
            ELSE IF found = PyInt(-1)
            THEN [calls |-> call, reply |-> QueryReply(400, "Wrong format for filters", 0)]
            ELSE IF found.n = 0
            THEN [calls |-> call,
                  reply |-> QueryReply(404, "Activities of current user were not found", 0)]
            ELSE [calls |-> call, reply |-> QueryReply(200, "Success", found.n)]

\* int() of text that is no number raises ValueError
IntOf(arg, value) == IF arg.kind = "text" THEN Thrown ELSE Returned(value)

\* activity_find as a whole
ActivityFind(count, amount, offset, filters, outcome) ==
    Query(count, IntOf(amount, FindLimit(amount)), offset, filters, outcome)

\* project_activities as a whole
ProjectActivities(count, amount, offset, filters, outcome) ==
    Query(count, IntOf(amount, ProjectLimit(amount)), offset, filters, outcome)

QueryReq(handler, out, user, amount, offset, filters, outcome) ==
    /\ request = Idle
    /\ request' = [handler |-> handler, user |-> user, amount |-> amount,
                   offset |-> offset, filters |-> filters, outcome |-> outcome]
    /\ response' = out.reply
    /\ calls' = out.calls
    /\ UNCHANGED <<activities, nextId, users, issued, now, matching, regVars, concVars>>

ActivityFindReq ==
    \E user \in UserIds, amount \in Amounts, offset \in Offsets,
       filters \in FilterFields, outcome \in StoreOutcomes :
        QueryReq("activity_find",
                 ActivityFind(matching, amount, offset, filters, outcome),
                 user, amount, offset, filters, outcome)

ProjectActivitiesReq ==
    \E user \in UserIds, amount \in Amounts, offset \in Offsets,
       filters \in FilterFields, outcome \in StoreOutcomes :
        QueryReq("project_activities",
                 ProjectActivities(matching, amount, offset, filters, outcome),
                 user, amount, offset, filters, outcome)

\* Activities are recorded or removed: the number of records in scope changes.
StoreChanges ==
    \E v \in Volumes :
        /\ request = Idle
        /\ matching' = v
        /\ UNCHANGED <<activities, nextId, users, issued, now, request, response, calls, regVars, concVars>>

NextQuery == ActivityFindReq \/ ProjectActivitiesReq \/ StoreChanges \/ Deliver

SpecQuery == Init /\ [][NextQuery]_vars

\* C7: whatever amount_to_return is requested, the limit activity_find passes
\* to the store is at most 1000 and the one project_activities passes is at
\* most 10000, and a response carries at most that many records.
C7_QueryCap ==
    /\ request.handler = "activity_find" =>
          /\ \A i \in 1..Len(calls) : calls[i].limit <= 1000
          /\ response.body.count <= 1000
    /\ request.handler = "project_activities" =>
          /\ \A i \in 1..Len(calls) : calls[i].limit <= 10000
          /\ response.body.count <= 10000

C7_Witness ==
    /\ request.handler = "activity_find"
    /\ request.amount = IntArg(5000)
    /\ matching > 1000
    /\ Len(calls) = 1
    /\ calls[1].limit = 1000
    /\ response.status = 200
    /\ response.body.count = 1000

-----------------------------------------------------------------------------
(* user_register, taken one store operation at a time, on concurrent       *)
(* request threads                                                         *)

Emails == {"A@x", "a@x", "b@x"}

\* str.lower()
Lower(email) == IF email = "A@x" THEN "a@x" ELSE email

\* Identifiers the store gives to new user documents, in order.
IdPool == <<"u1", "u2", "u3", "u4", "u5">>

\* User.objects(email=email).first(): an exact match on the stored email
FindByEmail(docs, email) == \E a \in docs : a.email = email

\* Some stored user has this address, letter case ignored.
ExistsIgnoringCase(docs, email) == \E a \in docs : Lower(a.email) = Lower(email)

\* user.save() (line 246): the document is inserted; with a unique index on
\* email the insert of an address that is stored already raises.
SaveUser(docs, index, email) ==
    IF index /\ FindByEmail(docs, email)
    THEN [raised |-> TRUE, docs |-> docs]
    ELSE [raised |-> FALSE,
          docs |-> docs \cup {[id |-> IdPool[Cardinality(docs) + 1], email |-> email]}]

Finished(w, status, created, existed) ==
    [registering EXCEPT ![w] = [@ EXCEPT !.pc = "done", !.status = status,
                                         !.created = created, !.existed = existed]]

InProgress == {w \in Workers : registering[w].pc # "idle"}

RegUnchanged ==
    UNCHANGED <<activities, nextId, issued, now, matching, request, response, calls,
                emailIndex, concVars>>

\* lines 227-234: the form is read; 400 when a field is missing
RegisterBegin(w) ==
    \E email \in Emails, complete \in BOOLEAN :
        /\ registering[w].pc = "idle"
        /\ Cardinality(accounts) + Cardinality(InProgress) < MaxUsers
        /\ registering' =
              [registering EXCEPT ![w] =
                  IF complete
                  THEN [pc |-> "query1", email |-> email, status |-> 0,
                        created |-> FALSE, existed |-> FALSE]
                  ELSE [pc |-> "done", email |-> email, status |-> 400,
                        created |-> FALSE, existed |-> FALSE]]
        /\ UNCHANGED <<users, accounts>>
        /\ RegUnchanged

\* line 236: User.objects(email=email).first(); found: 409 (lines 239-240)
RegisterQuery1(w) ==
    /\ registering[w].pc = "query1"
    /\ registering' =
          IF FindByEmail(accounts, registering[w].email)
          THEN Finished(w, 409, FALSE, TRUE)
          ELSE [registering EXCEPT ![w].pc = "query2"]
    /\ UNCHANGED <<users, accounts>>
    /\ RegUnchanged

\* line 237: User.objects(email=email.lower()).first(); found: 409
RegisterQuery2(w) ==
    /\ registering[w].pc = "query2"
    /\ registering' =
          IF FindByEmail(accounts, Lower(registering[w].email))
          THEN Finished(w, 409, FALSE, TRUE)
          ELSE [registering EXCEPT ![w].pc = "save"]
    /\ UNCHANGED <<users, accounts>>
    /\ RegUnchanged

\* lines 238-250: the lowered address is saved; 200, or 500 when save raises
RegisterSave(w) ==
    /\ registering[w].pc = "save"
    /\ LET email == Lower(registering[w].email)
           saved == SaveUser(accounts, emailIndex, email)
           existed == ExistsIgnoringCase(accounts, email)
       IN /\ accounts' = saved.docs
          /\ users' = {a.id : a \in saved.docs}
          /\ registering' = IF saved.raised
                            THEN Finished(w, 500, FALSE, existed)
                            ELSE Finished(w, 200, TRUE, existed)
    /\ RegUnchanged

\* The response has been sent; the thread takes the next request.
RegisterReturn(w) ==
    /\ registering[w].pc = "done"
    /\ registering' = [registering EXCEPT ![w] = NotRegistering]
    /\ UNCHANGED <<users, accounts>>
    /\ RegUnchanged

\* The user store is empty; the schema of the collection is not known.
InitReg ==
    /\ activities = {}
    /\ nextId = 1
    /\ users = {}
    /\ issued = {}
    /\ now = 0
    /\ matching = 0
    /\ request = Idle
    /\ response = NoResponse
    /\ calls = <<>>
    /\ accounts = {}
    /\ emailIndex \in BOOLEAN
    /\ registering = [w \in Workers |-> NotRegistering]
    /\ adding = NotAdding
    /\ reads = {}

NextReg ==
    \E w \in Workers :
        \/ RegisterBegin(w)
        \/ RegisterQuery1(w)
        \/ RegisterQuery2(w)
        \/ RegisterSave(w)
        \/ RegisterReturn(w)

SpecReg == InitReg /\ [][NextReg]_vars

\* C12: from an empty user store, whatever user_register requests run and
\* however they interleave, no two stored users have emails that are equal
\* ignoring case, and a registration for an address that exists already is
\* answered 409 and creates no user.
C12_EmailUnique ==
    /\ \A a, b \in accounts : Lower(a.email) = Lower(b.email) => a = b
    /\ \A w \in Workers :
          (registering[w].pc = "done" /\ registering[w].existed) =>
              /\ registering[w].status = 409
              /\ ~registering[w].created

-----------------------------------------------------------------------------
(* activity_add on a batch, taken one store operation at a time, with      *)
(* activity_find requests of other threads in between                      *)

ConcUnchanged ==
    UNCHANGED <<users, issued, now, matching, request, response, calls, regVars>>

\* lines 571-582: the payload is decoded and one insert task per activity is
\* launched
AddBegin ==
    \E user \in UserIds, tasks \in Batches :
        \E insOk \in [1..Len(tasks) -> BOOLEAN], delOk \in [1..Len(tasks) -> BOOLEAN] :
            /\ adding.pc = "idle"
            /\ nextId + Len(tasks) - 1 <= MaxId
            /\ \A i \in 1..Len(tasks) :
                   ~delOk[i] => insOk[i] /\ \E j \in 1..Len(tasks) : ~insOk[j]
            /\ adding' = [pc |-> "inserting", user |-> user, tasks |-> tasks,
                          insOk |-> insOk, delOk |-> delOk,
                          pending |-> 1..Len(tasks),
                          results |-> [i \in 1..Len(tasks) |-> PyNone],
                          i |-> 1, created |-> {}, status |-> 0]
            /\ reads' = {}
            /\ UNCHANGED <<activities, nextId>>
            /\ ConcUnchanged

\* line 582: one of the launched add_activity tasks completes
AddInsert ==
    /\ adding.pc = "inserting"
    /\ \E pos \in adding.pending :
        LET r == AddActivity(activities, nextId, Obj(adding.tasks[pos]),
                             adding.user, adding.insOk[pos])
        IN /\ activities' = r.store
           /\ nextId' = r.nextId
           /\ adding' = [adding EXCEPT
                            !.pending = @ \ {pos},
                            !.results[pos] = r.result,
                            !.created = IF Truthy(r.result) THEN @ \cup {r.result.v} ELSE @]
           /\ UNCHANGED reads
           /\ ConcUnchanged

\* lines 583-590 and 597-601: all tasks are joined and the outcome is decided
AddJoin ==
    /\ adding.pc = "inserting"
    /\ adding.pending = {}
    /\ adding' = IF BatchSucceeded(Aggregate(adding.results))
                 THEN [adding EXCEPT !.pc = "done",
                                     !.status = AddReply(PyList(adding.results)).status]
                 ELSE [adding EXCEPT !.pc = "rollback"]
    /\ UNCHANGED <<activities, nextId, reads>>
    /\ ConcUnchanged

\* lines 591-593: the next part_result is looked at and, if it is an
\* identifier, deleted
AddRollback ==
    /\ adding.pc = "rollback"
    /\ adding.i <= Len(adding.results)
    /\ LET part_result == adding.results[adding.i]
       IN activities' = IF ShouldCompensate(part_result)
                        THEN DeleteActivity(activities, part_result,
                                            adding.delOk[adding.i]).store
                        ELSE activities
    /\ adding' = [adding EXCEPT !.i = @ + 1]
    /\ UNCHANGED <<nextId, reads>>
    /\ ConcUnchanged

\* lines 597-599: the failure is reported
AddFail ==
    /\ adding.pc = "rollback"
    /\ adding.i > Len(adding.results)
    /\ adding' = [adding EXCEPT !.pc = "done",
                                !.status = AddReply(Aggregate(adding.results)).status]
    /\ UNCHANGED <<activities, nextId, reads>>
    /\ ConcUnchanged

\* The response has been sent.
AddReturn ==
    /\ adding.pc = "done"
    /\ adding' = NotAdding
    /\ reads' = {}
    /\ UNCHANGED <<activities, nextId>>
    /\ ConcUnchanged

\* find_activities(owner_ids, offset=0, items_to_return=limit): the stored
\* records of these owners, at most `limit` of them.
FindRecords(store, owner_ids, limit) ==
    LET mine == {r \in store : r.owner \in owner_ids}
    IN {found \in SUBSET mine : Cardinality(found) = Min(Cardinality(mine), Max(limit, 0))}

\* activity_find (lines 687-714) of another thread, while the batch is in
\* progress or after its handler returned
FindDuring ==
    \E user \in UserIds :
        \E found \in FindRecords(activities, {user}, FindLimit(AbsentArg)) :
            /\ adding.pc # "idle"
            /\ reads' = reads \cup {[user |-> user, id |-> r.id] : r \in found}
            /\ UNCHANGED <<activities, nextId, adding>>
            /\ ConcUnchanged

NextConc ==
    AddBegin \/ AddInsert \/ AddJoin \/ AddRollback \/ AddFail \/ AddReturn \/ FindDuring

SpecConc == Init /\ [][NextConc]_vars

\* C14: when a batch submission of an owner ends in failure, no activity_find
\* of that owner, during the batch or after its handler returned, has
\* returned a record the batch inserted.
C14_NoPartialVisible ==
    (adding.pc = "done" /\ adding.status # 201) =>
        \A x \in reads : ~(x.user = adding.user /\ x.id \in adding.created)

====
